---- MODULE Spec2Model ----
(***************************************************************************)
(* split_plsql_into_blocks of plsql_chunker: the segmentation loop that    *)
(* groups the splitter's statements into blocks, and the fallback that     *)
(* chunks blocks longer than max_chunk_size at semicolons.                  *)
(* Texts are strings; a character is a string of length one.               *)
(***************************************************************************)
EXTENDS Integers, Sequences, FiniteSets, TLC

\* ------------------------------------------------------------------ bounds
MaxStmts == 3
MaxChunkSize == 4

\* --------------------------------------------------------- text primitives
Ch(s, k) == SubSeq(s, k, k)

CharsOf(s) == {Ch(s, k) : k \in 1..Len(s)}

\* what str.strip() removes and what \s matches
Whitespace == {" ", "\t", "\n", "\r"}

LowerCase == "abcdefghijklmnopqrstuvwxyz"
UpperCase == "ABCDEFGHIJKLMNOPQRSTUVWXYZ"

\* \w of the regular expressions, and the class [\w$]
WordChars == CharsOf(LowerCase) \cup CharsOf(UpperCase) \cup CharsOf("0123456789_")
WordOrDollar == WordChars \cup {"$"}

\* re.IGNORECASE: letters are compared in one case
UpperOf ==
  [c \in CharsOf(LowerCase) |->
     Ch(UpperCase, CHOOSE k \in 1..Len(LowerCase) : Ch(LowerCase, k) = c)]

Upper(c) == IF c \in DOMAIN UpperOf THEN UpperOf[c] ELSE c

\* the keyword kw (upper case) stands at position p of s, case-insensitively
KeywordAt(s, p, kw) ==
  /\ p >= 1
  /\ p + Len(kw) - 1 <= Len(s)
  /\ \A k \in 1..Len(kw) : Upper(Ch(s, p + k - 1)) = Ch(kw, k)

\* every character of s[lo..hi] is in class
AllIn(s, lo, hi, class) == \A k \in lo..hi : Ch(s, k) \in class

\* str.strip()
RECURSIVE LStrip(_)
LStrip(s) ==
  IF s # "" /\ Ch(s, 1) \in Whitespace THEN LStrip(SubSeq(s, 2, Len(s))) ELSE s

RECURSIVE RStrip(_)
RStrip(s) ==
  IF s # "" /\ Ch(s, Len(s)) \in Whitespace THEN RStrip(SubSeq(s, 1, Len(s) - 1)) ELSE s

Strip(s) == RStrip(LStrip(s))

\* block_start_pattern.match(s): ^\s*(CREATE|DECLARE|BEGIN), IGNORECASE
block_start_pattern(s) ==
  \E a \in 0..Len(s) :
    /\ AllIn(s, 1, a, Whitespace)
    /\ \E kw \in {"CREATE", "DECLARE", "BEGIN"} : KeywordAt(s, a + 1, kw)

\* block_end_pattern.search(s): END\s*;|END\s*[\w$]*\s*;, IGNORECASE
block_end_pattern(s) ==
  \E p \in 1..Len(s) :
    /\ KeywordAt(s, p, "END")
    /\ \/ \E a \in (p + 2)..Len(s) :
            /\ AllIn(s, p + 3, a, Whitespace)
            /\ a + 1 <= Len(s) /\ Ch(s, a + 1) = ";"
       \/ \E a \in (p + 2)..Len(s) : \E b \in a..Len(s) : \E c \in b..Len(s) :
            /\ AllIn(s, p + 3, a, Whitespace)
            /\ AllIn(s, a + 1, b, WordOrDollar)
            /\ AllIn(s, b + 1, c, Whitespace)
            /\ c + 1 <= Len(s) /\ Ch(s, c + 1) = ";"

\* str.split(';')
RECURSIVE SplitSemi(_)
SplitSemi(s) ==
  LET semis == {k \in 1..Len(s) : Ch(s, k) = ";"}
  IN IF semis = {} THEN <<s>>
     ELSE LET f == CHOOSE k \in semis : \A m \in semis : k <= m
          IN <<SubSeq(s, 1, f - 1)>> \o SplitSemi(SubSeq(s, f + 1, Len(s)))

\* ------------------------------------------------------------------ inputs
\* statements handed to the loop (the splitter is an external library and the
\* loop trims every statement itself): a definition header, a body opener,
\* closers (bare and named, either case), a one-statement block, a standalone
\* statement, the slash terminator, a whitespace-only and an empty statement
Pool == {"CREATE p IS v;", "BEGIN x;", "END;", "end p;", "BEGIN END;",
         "x;", "/", " ", ""}

StmtSeqs == UNION {[1..n -> Pool] : n \in 0..MaxStmts}

\* ------------------------------------------------------------------- state
VARIABLES statements, max_chunk_size, blocks, buffer, in_block, final_blocks,
          pc, i, j

vars == <<statements, max_chunk_size, blocks, buffer, in_block, final_blocks,
          pc, i, j>>

Init ==
  /\ statements \in StmtSeqs
  /\ max_chunk_size \in 1..MaxChunkSize
  /\ blocks = <<>>
  /\ buffer = ""
  /\ in_block = FALSE
  /\ final_blocks = <<>>
  /\ pc = "start"
  /\ i = 1
  /\ j = 1

\* ------------------------------------------------------ segmentation loop
\* the flush before an opener left out
NeverFlushBeforeOpener(stripped, buf) == FALSE

\* line 22-23: an opener flushes a buffer that is not the empty string
FlushBeforeOpener(stripped, buf) == block_start_pattern(stripped) /\ buf # ""

\* the statement overwrites the buffer instead of extending it
AppendStmtOverwrite(buf, stmt) == stmt

\* line 27
AppendStmt(buf, stmt) == IF buf = "" THEN stmt ELSE buf \o "\n" \o stmt

\* the closer test without the in_block guard
ClosesBlockIgnoringFlag(flag, stripped) == block_end_pattern(stripped)

\* line 29
ClosesBlock(flag, stripped) == flag /\ block_end_pattern(stripped)

\* lines 20-27 for statement i
StartOfBlock ==
  /\ pc = "start"
  /\ i <= Len(statements)
  /\ LET stmt == statements[i]
         stripped == Strip(stmt)
         flush == FlushBeforeOpener(stripped, buffer)
     IN /\ blocks' = IF flush THEN Append(blocks, Strip(buffer)) ELSE blocks
        /\ in_block' = (in_block \/ block_start_pattern(stripped))
        /\ buffer' = AppendStmt(IF flush THEN "" ELSE buffer, stmt)
  /\ pc' = "end"
  /\ UNCHANGED <<statements, max_chunk_size, final_blocks, i, j>>

\* lines 28-32 for statement i
EndOfBlock ==
  /\ pc = "end"
  /\ IF ClosesBlock(in_block, Strip(statements[i]))
       THEN /\ blocks' = Append(blocks, Strip(buffer))
            /\ buffer' = ""
            /\ in_block' = FALSE
       ELSE UNCHANGED <<blocks, buffer, in_block>>
  /\ i' = i + 1
  /\ pc' = "start"
  /\ UNCHANGED <<statements, max_chunk_size, final_blocks, j>>

\* the remainder of the buffer dropped at the end of the loop
FinalFlushDropped(bs, buf) == bs

\* lines 33-34
FinalFlush(bs, buf) == IF Strip(buf) # "" THEN Append(bs, Strip(buf)) ELSE bs

FlushRemainder ==
  /\ pc = "start"
  /\ i > Len(statements)
  /\ blocks' = FinalFlush(blocks, buffer)
  /\ pc' = "chunk"
  /\ UNCHANGED <<statements, max_chunk_size, buffer, in_block, final_blocks, i, j>>

\* ---------------------------------------------------------------- fallback
\* the fragment appended without its semicolon
AddFragmentNoSemicolon(temp, s) == temp \o s

\* line 44
AddFragment(temp, s) == temp \o s \o ";"

\* lines 43-49: the fragments left, the running temp, the chunks emitted
RECURSIVE ChunkLoop(_, _, _, _)
ChunkLoop(stmts, temp, out, n) ==
  IF stmts = <<>>
    THEN IF Strip(temp) # "" THEN Append(out, Strip(temp)) ELSE out
    ELSE LET t == AddFragment(temp, Head(stmts))
         IN IF Len(t) >= n
              THEN ChunkLoop(Tail(stmts), "", Append(out, Strip(t)), n)
              ELSE ChunkLoop(Tail(stmts), t, out, n)

\* lines 39-51 for one block
BoundBlock(blk, n) ==
  IF Len(blk) > n THEN ChunkLoop(SplitSemi(blk), "", <<>>, n) ELSE <<blk>>

\* lines 37-51 for a whole block sequence
RECURSIVE Bound(_, _)
Bound(bs, n) ==
  IF bs = <<>> THEN <<>> ELSE BoundBlock(Head(bs), n) \o Bound(Tail(bs), n)

ChunkBlock ==
  /\ pc = "chunk"
  /\ j <= Len(blocks)
  /\ final_blocks' = final_blocks \o BoundBlock(blocks[j], max_chunk_size)
  /\ j' = j + 1
  /\ UNCHANGED <<statements, max_chunk_size, blocks, buffer, in_block, pc, i>>

\* line 52
Return ==
  /\ pc = "chunk"
  /\ j > Len(blocks)
  /\ pc' = "done"
  /\ UNCHANGED <<statements, max_chunk_size, blocks, buffer, in_block, final_blocks, i, j>>

Next == StartOfBlock \/ EndOfBlock \/ FlushRemainder \/ ChunkBlock \/ Return

Spec == Init /\ [][Next]_vars

TypeOK ==
  /\ pc \in {"start", "end", "chunk", "done"}
  /\ i \in 1..(Len(statements) + 1)
  /\ j \in 1..(Len(blocks) + 1)
  /\ in_block \in BOOLEAN

\* ------------------------------------------------------------- vocabulary
NumStmts == Len(statements)

IsOpener(k) == block_start_pattern(Strip(statements[k]))
IsCloser(k) == block_end_pattern(Strip(statements[k]))
IsBlank(k) == Strip(statements[k]) = ""
IsStandalone(k) == ~IsBlank(k) /\ ~IsOpener(k) /\ ~IsCloser(k)

\* the segmentation loop and its final flush are over: blocks is final
Segmented == pc \in {"chunk", "done"}

\* statements lo..hi joined with line feeds
RECURSIVE JoinNL(_, _)
JoinNL(lo, hi) ==
  IF lo > hi THEN ""
  ELSE IF lo = hi THEN statements[lo]
  ELSE statements[lo] \o "\n" \o JoinNL(lo + 1, hi)

HasSemicolon(s) == \E k \in 1..Len(s) : Ch(s, k) = ";"

EndsWith(s, t) == Len(t) <= Len(s) /\ SubSeq(s, Len(s) - Len(t) + 1, Len(s)) = t

\* ------------------------------------------------------------------- C1
\* bs is the trimmed joins of consecutive groups of statements k.., in order,
\* and what follows the last group is whitespace only
RECURSIVE Covers(_, _)
Covers(bs, k) ==
  IF bs = <<>>
    THEN \A m \in k..NumStmts : IsBlank(m)
    ELSE \E e \in k..NumStmts :
           /\ Head(bs) = Strip(JoinNL(k, e))
           /\ Covers(Tail(bs), e + 1)

\* C1: content preservation of the segmentation pass. The blocks are, in
\* order, the trimmed line-feed joins of consecutive groups of the statement
\* sequence, starting at the first statement; every statement is in exactly
\* one group, except whitespace-only statements after the last block.
ContentPreserved == Segmented => Covers(blocks, 1)

ContentPreservedWitness ==
  /\ pc = "done"
  /\ NumStmts = 3
  /\ \A k \in 1..NumStmts : ~IsBlank(k)
  /\ Len(blocks) = 2
  /\ blocks[1] = statements[1] \o "\n" \o statements[2]

\* ------------------------------------------------------------------- C2
\* C2: no empty blocks. No element of the segmentation output and no element
\* of the size-bounded output is the empty string after trimming.
NoEmptyBlocks ==
  /\ \A k \in 1..Len(blocks) : Strip(blocks[k]) # ""
  /\ \A k \in 1..Len(final_blocks) : Strip(final_blocks[k]) # ""

\* ------------------------------------------------------------------- C3
\* C3: idempotence of size bounding. Bounding the returned sequence again
\* with the same max_chunk_size returns it unchanged.
BoundIdempotent ==
  pc = "done" => Bound(final_blocks, max_chunk_size) = final_blocks

\* ------------------------------------------------------------------- C4
\* C4: size bound respected where possible. No returned block longer than
\* max_chunk_size is made of two or more semicolon-delimited fragments: such
\* a block is a single fragment followed by its semicolon.
SizeBoundRespected ==
  pc = "done" =>
    \A k \in 1..Len(final_blocks) :
      Len(final_blocks[k]) > max_chunk_size =>
        LET fr == SplitSemi(final_blocks[k])
        IN Len(fr) = 2 /\ fr[2] = ""

\* ------------------------------------------------------------------- C5
\* C5: adjacent top-level definitions are never merged. Once an opener
\* statement has been appended, the buffer holds that statement and nothing
\* before it: the opener is the first statement of its block.
OpenerStartsBlock ==
  (pc = "end" /\ IsOpener(i)) => buffer = statements[i]

OpenerStartsBlockWitness ==
  /\ pc = "end"
  /\ i >= 2
  /\ IsOpener(i) /\ IsOpener(i - 1) /\ ~IsCloser(i - 1)
  /\ blocks # <<>>
  /\ blocks[Len(blocks)] = Strip(statements[i - 1])
  /\ buffer = statements[i]

\* ------------------------------------------------------------------- C6
\* the whole input is one definition divided into statements: it starts with
\* CREATE or DECLARE, its last statement holds the closer, and no statement in
\* between closes a block or starts another definition
IsDefinition ==
  /\ NumStmts >= 1
  /\ \E kw \in {"CREATE", "DECLARE"} : KeywordAt(Strip(statements[1]), 1, kw)
  /\ IsCloser(NumStmts)
  /\ \A k \in 1..(NumStmts - 1) : ~IsCloser(k) /\ ~IsBlank(k)
  /\ \A k \in 2..NumStmts :
       \A kw \in {"CREATE", "DECLARE"} : ~KeywordAt(Strip(statements[k]), 1, kw)

\* C6: re-grouping is independent of splitter granularity. However a
\* CREATE/DECLARE ... END; definition is divided into statements, the
\* segmentation pass emits it as exactly one block.
DefinitionIsOneBlock ==
  (Segmented /\ IsDefinition) => blocks = <<Strip(JoinNL(1, NumStmts))>>

\* ------------------------------------------------------------------- C7
\* C7: standalone statement isolation. The first statement is always
\* processed with an empty buffer; when it is neither opener nor closer it is
\* emitted as a block of its own.
StandaloneIsolated ==
  (Segmented /\ NumStmts >= 1 /\ IsStandalone(1)) =>
    (blocks # <<>> /\ blocks[1] = Strip(statements[1]))

\* ------------------------------------------------------------------- C8
\* steps left before the function returns
Measure ==
  CASE pc = "start" -> 2 * (NumStmts - i + 1) + NumStmts + 3
    [] pc = "end"   -> 2 * (NumStmts - i + 1) + NumStmts + 2
    [] pc = "chunk" -> Len(blocks) - j + 2
    [] pc = "done"  -> 0

\* when the last opener has no closer at or after it, the statements from
\* that opener to the end are the last block
UnclosedTailEmitted ==
  Segmented =>
    LET openers == {k \in 1..NumStmts : IsOpener(k)}
    IN \A k \in openers :
         ( /\ \A m \in openers : m <= k
           /\ \A m \in k..NumStmts : ~IsCloser(m) )
         => /\ blocks # <<>>
            /\ blocks[Len(blocks)] = Strip(JoinNL(k, NumStmts))

\* some step of the function can be taken, with its indices in range
StepEnabled ==
  \/ pc = "start" /\ i \in 1..NumStmts
  \/ pc = "start" /\ i = NumStmts + 1
  \/ pc = "end" /\ i \in 1..NumStmts
  \/ pc = "chunk" /\ j \in 1..Len(blocks)
  \/ pc = "chunk" /\ j = Len(blocks) + 1

NoSemicolonOneChunk ==
  [][ ( /\ pc = "chunk"
        /\ j <= Len(blocks)
        /\ Len(blocks[j]) > max_chunk_size
        /\ ~HasSemicolon(blocks[j]) )
      => LET out == SubSeq(final_blocks', Len(final_blocks) + 1, Len(final_blocks'))
         IN /\ SubSeq(final_blocks', 1, Len(final_blocks)) = final_blocks
            /\ Len(out) = 1
            /\ out[1] = blocks[j] \o ";"
            /\ Len(out[1]) = Len(blocks[j]) + 1 ]_vars

NoSemicolonOneChunkWitness ==
  /\ pc = "chunk"
  /\ j >= 2
  /\ Len(blocks[j - 1]) > max_chunk_size
  /\ ~HasSemicolon(blocks[j - 1])
  /\ final_blocks # <<>>
  /\ final_blocks[Len(final_blocks)] = blocks[j - 1] \o ";"

\* ------------------------------------------------------------------ C10
\* C10: a closer only ends an open block. A closer statement tested while
\* in_block is false stays appended to an unflushed buffer and leaves the flag
\* false; a flush at the closer test happens only with in_block true, and
\* leaves the flag false and the buffer empty.
CloserOnlyEndsOpenBlock ==
  [][ /\ (pc = "end" /\ ~in_block /\ IsCloser(i))
         => /\ EndsWith(buffer, statements[i])
            /\ buffer' = buffer
            /\ blocks' = blocks
            /\ ~in_block'
      /\ (pc = "end" /\ blocks' # blocks)
         => /\ in_block /\ IsCloser(i)
            /\ blocks' = Append(blocks, Strip(buffer))
            /\ ~in_block'
            /\ buffer' = "" ]_vars

CloserOnlyEndsOpenBlockWitness ==
  /\ pc = "start"
  /\ i >= 2
  /\ IsCloser(i - 1) /\ ~IsOpener(i - 1)
  /\ ~in_block
  /\ EndsWith(buffer, statements[i - 1])
  /\ blocks = <<>>
====
